---- MODULE Spec2Model ----
(***************************************************************************)
(* Model of documentstore/domain.py (DocumentManifest, Document,           *)
(* BundleManifest, DocumentsBundle, Journal, fetch_data) and of the       *)
(* document and asset handlers of documentstore/restfulapi.py.             *)
(*                                                                         *)
(* Spec is the life of one Document made empty, StoredSpec that of one     *)
(* rehydrated from a stored manifest, BundleSpec that of one               *)
(* DocumentsBundle or Journal; the object the other is about is not        *)
(* constructed.  These take manifests as values.  HeapSpec is about who    *)
(* holds which object: there the manifests are objects of a heap that the  *)
(* aggregate and its caller hold references to; fetch_data, which has no   *)
(* state, is applied there.                                                *)
(*                                                                         *)
(* Strings that the code inspects character by character (timestamps) are  *)
(* sequences of character codes, compared as Python compares str values.   *)
(* Opaque strings (ids, URIs, exception names) are TLA+ strings.           *)
(***************************************************************************)
EXTENDS Integers, Sequences, FiniteSets, TLC

VARIABLES manifest, bundle, heap, clock, call, result, commands

vars == <<manifest, bundle, heap, clock, call, result, commands>>

-----------------------------------------------------------------------------
(* Bounds of the model.                                                    *)

\* Highest clock reading; a reading k is k half-seconds after Epoch.
MaxClock == 2
\* Highest number of commands that change the manifest of the Document.
MaxCommands == 3
\* Highest number of calls that change the manifest of the bundle.
MaxMutations == 3
\* Highest number of objects on the heap.
MaxObjects == 4

-----------------------------------------------------------------------------
(* Characters and strings.                                                 *)

Chr == [nl |-> 10, dash |-> 45, dot |-> 46, zero |-> 48, nine |-> 57,
        colon |-> 58, T |-> 84, Z |-> 90]

IsDigit(c) == Chr.zero <= c /\ c <= Chr.nine

Pad2(n) == <<Chr.zero + ((n \div 10) % 10), Chr.zero + (n % 10)>>

Pad4(n) == Pad2(n \div 100) \o Pad2(n % 100)

Pad6(n) == Pad2(n \div 10000) \o Pad4(n % 10000)

SetMin(S) == CHOOSE x \in S : \A y \in S : x <= y

\* Python's str <=: by the first differing character, else by length.
StrLeq(a, b) ==
    LET n == IF Len(a) <= Len(b) THEN Len(a) ELSE Len(b)
        diffs == {i \in 1..n : a[i] # b[i]}
    IN  IF diffs = {} THEN Len(a) <= Len(b)
        ELSE a[SetMin(diffs)] < b[SetMin(diffs)]

-----------------------------------------------------------------------------
(* The clock.                                                              *)

\* The instant of clock reading 0 and the time between two readings.
Epoch == [year |-> 2018, month |-> 9, day |-> 17,
          hour |-> 23, minute |-> 59, second |-> 59, microsecond |-> 0]

TickMicros == [step |-> 500000]

\* datetime.utcnow() at clock reading k.
DateTime(k) ==
    LET us == Epoch.microsecond + k * TickMicros.step
        s  == Epoch.second + us \div 1000000
        mi == Epoch.minute + s \div 60
        h  == Epoch.hour + mi \div 60
    IN  [year |-> Epoch.year, month |-> Epoch.month,
         day |-> Epoch.day + h \div 24, hour |-> h % 24, minute |-> mi % 60,
         second |-> s % 60, microsecond |-> us % 1000000]

\* datetime.isoformat(): the fraction is left out when microsecond is 0.
isoformat(dt) ==
    Pad4(dt.year) \o <<Chr.dash>> \o Pad2(dt.month) \o <<Chr.dash>>
    \o Pad2(dt.day) \o <<Chr.T>> \o Pad2(dt.hour) \o <<Chr.colon>>
    \o Pad2(dt.minute) \o <<Chr.colon>> \o Pad2(dt.second)
    \o (IF dt.microsecond # 0 THEN <<Chr.dot>> \o Pad6(dt.microsecond)
        ELSE <<>>)

utcnow(k) == isoformat(DateTime(k)) \o <<Chr.Z>>

\* The readings of n successive calls of now(): the clock never goes back.
NowReads(n) ==
    {reads \in [1..n -> clock..MaxClock] :
        \A i \in 1..n : \A j \in i..n : reads[i] <= reads[j]}

-----------------------------------------------------------------------------
(* Inputs.                                                                 *)

DocumentId == "doc"

DataUrls == {"http://x/v1.xml", "http://x/v2.xml"}

AssetIds == {"fig1.png", "fig2.png"}

AssetUrls == {"http://x/a1", "http://x/a2"}

\* What the fetcher finds in a document: the asset keys, in document order
\* (a key may occur twice).
KeyLists ==
    {<<>>, <<"fig1.png">>, <<"fig1.png", "fig1.png">>,
     <<"fig1.png", "fig2.png">>, <<"fig2.png", "fig1.png">>}

\* What assets_getter(data_url, timeout) does: it raises or it returns keys.
FetchOutcomes ==
    {[exc |-> e, keys |-> <<>>] : e \in {"RetryableError", "NonRetryableError"}}
    \cup {[exc |-> "none", keys |-> ks] : ks \in KeyLists}

\* Outcomes of an operation: the exception raised ("none": it returned)
\* and the value returned.
NoValue == [none |-> TRUE]

Raise(e) == [exc |-> e, value |-> NoValue]

Return(v) == [exc |-> "none", value |-> v]

-----------------------------------------------------------------------------
(* DocumentManifest.                                                       *)

new(id) == [id |-> id, versions |-> <<>>]

\* A dict built from a list of keys: first occurrence fixes the position.
DictKeys(keys) ==
    SelectSeq([i \in 1..Len(keys) |->
                  IF \E j \in 1..(i - 1) : keys[j] = keys[i] THEN "" ELSE keys[i]],
              LAMBDA k : k # "")

Range(seq) == {seq[i] : i \in 1..Len(seq)}

_new_version(data_uri, assets, t) ==
    [data |-> data_uri,
     assets |-> [aid \in Range(assets.keys) |-> <<>>],
     timestamp |-> utcnow(t)]

\* A slip: the timeline is rewritten instead of appended to.
OverwritingAssetVersion(version, asset_id, asset_uri, t) ==
    [version EXCEPT !.assets[asset_id] = << <<utcnow(t), asset_uri>> >>]

\* Raises KeyError when asset_id is no key of the version, which
\* add_asset_version reports.
_new_asset_version(version, asset_id, asset_uri, t) ==
    [version EXCEPT !.assets[asset_id] = Append(@, <<utcnow(t), asset_uri>>)]

\* The keys of assets that add_version seeds, in iteration order.
Seeded(assets) == SelectSeq(assets.keys, LAMBDA k : assets.val[k] # "")

\* reads[1] stamps the version; reads[i + 1] stamps the i-th seeded asset.
add_version(m, data_uri, assets, reads) ==
    LET seeded == Seeded(assets)
        v0 == _new_version(data_uri, assets, reads[1])
        step[i \in 0..Len(seeded)] ==
            IF i = 0 THEN v0
            ELSE _new_asset_version(step[i - 1], seeded[i],
                                    assets.val[seeded[i]], reads[i + 1])
    IN  [m EXCEPT !.versions = Append(@, step[Len(seeded)])]

\* A slip: the entry goes to the first version, versions[0].
AddingToFirstVersion(m, asset_id, asset_uri, t) ==
    IF m.versions = <<>> THEN Raise("IndexError")
    ELSE IF asset_id \notin DOMAIN m.versions[Len(m.versions)].assets
         THEN Raise("KeyError")
    ELSE IF asset_id \notin DOMAIN m.versions[1].assets
         THEN Raise("KeyError")
    ELSE Return([m EXCEPT !.versions[1] =
                    _new_asset_version(@, asset_id, asset_uri, t)])

add_asset_version(m, asset_id, asset_uri, t) ==
    IF m.versions = <<>> THEN Raise("IndexError")
    ELSE IF asset_id \notin DOMAIN m.versions[Len(m.versions)].assets
         THEN Raise("KeyError")
    ELSE Return([m EXCEPT !.versions[Len(m.versions)] =
                    _new_asset_version(@, asset_id, asset_uri, t)])


-----------------------------------------------------------------------------
(* Python built-ins used by Document.                                      *)

\* key(element) of every element of a sequence of versions, and of a
\* sequence of timeline entries: the timestamp.
VersionStamps(versions) ==
    [i \in 1..Len(versions) |-> versions[i].timestamp]

EntryStamps(uris) == [i \in 1..Len(uris) |-> uris[i][1]]

\* itertools.takewhile(lambda e: key(e) <= timestamp, seq): the longest
\* prefix of seq whose elements all have a key <= timestamp; stamps[i] is
\* the key of seq[i].
TakeWhile(seq, stamps, timestamp) ==
    LET stops == {i \in 1..Len(seq) : ~StrLeq(stamps[i], timestamp)}
    IN  IF stops = {} THEN seq ELSE SubSeq(seq, 1, SetMin(stops) - 1)

\* max(seq, key=key) on a non-empty seq: an element is replaced only by a
\* strictly greater one, so the first of the greatest elements is returned.
Max(seq, stamps) ==
    seq[SetMin({i \in 1..Len(seq) :
                   \A j \in 1..Len(seq) : StrLeq(stamps[j], stamps[i])})]

\* "$" of re.match: the end of the string, or just before a final newline.
BeforeFinalNewline(s) ==
    IF Len(s) > 0 /\ s[Len(s)] = Chr.nl THEN SubSeq(s, 1, Len(s) - 1) ELSE s

\* [0-9]{4}-[0-9]{2}-[0-9]{2} at the start of t.
DateShape(t) ==
    /\ Len(t) >= 10
    /\ \A i \in {1, 2, 3, 4, 6, 7, 9, 10} : IsDigit(t[i])
    /\ t[5] = Chr.dash
    /\ t[8] = Chr.dash

\* re.match(Document._timestamp_pattern, s)
_timestamp_pattern(s) ==
    LET t == BeforeFinalNewline(s)
    IN  /\ DateShape(t)
        /\ \/ Len(t) = 10
           \/ /\ Len(t) \in {17, 20}
              /\ t[11] = Chr.T
              /\ \A i \in {12, 13, 15, 16} : IsDigit(t[i])
              /\ t[14] = Chr.colon
              /\ \/ Len(t) = 17
                 \/ t[17] = Chr.colon /\ IsDigit(t[18]) /\ IsDigit(t[19])
              /\ t[Len(t)] = Chr.Z

\* re.match(r"^\d{4}-\d{2}-\d{2}$", s)
_date_pattern(s) ==
    LET t == BeforeFinalNewline(s) IN DateShape(t) /\ Len(t) = 10

\* "T23:59:59.999999Z"
EndOfDay ==
    <<Chr.T>> \o Pad2(23) \o <<Chr.colon>> \o Pad2(59) \o <<Chr.colon>>
    \o Pad2(59) \o <<Chr.dot>> \o Pad6(999999) \o <<Chr.Z>>

-----------------------------------------------------------------------------
(* Document: queries.                                                      *)

\* A slip: the oldest entry of the timeline instead of the newest.
OldestEntry(uris) == IF uris = <<>> THEN "" ELSE uris[1][2]

_latest(uris) == IF uris = <<>> THEN "" ELSE uris[Len(uris)][2]

version(m, index) ==
    LET n == Len(m.versions)
        v == m.versions[IF index >= 0 THEN index + 1 ELSE n + index + 1]
    IN  IF index < -n \/ index >= n THEN Raise("ValueError")
        ELSE Return([data |-> v.data,
                     assets |-> [a \in DOMAIN v.assets |-> _latest(v.assets[a])],
                     timestamp |-> v.timestamp])

_at_time(uris, timestamp) ==
    LET taken == TakeWhile(uris, EntryStamps(uris), timestamp)
    IN  IF taken = <<>> THEN ""
        ELSE Max(taken, EntryStamps(taken))[2]

Widened(timestamp) ==
    IF _date_pattern(timestamp) THEN timestamp \o EndOfDay ELSE timestamp

version_at(m, timestamp) ==
    LET ts == Widened(timestamp)
        taken == TakeWhile(m.versions, VersionStamps(m.versions), ts)
        target_version == Max(taken, VersionStamps(taken))
    IN  IF ~_timestamp_pattern(timestamp) THEN Raise("ValueError")
        ELSE IF taken = <<>> THEN Raise("ValueError")
        ELSE Return([data |-> target_version.data,
                     assets |-> [a \in DOMAIN target_version.assets |->
                                    _at_time(target_version.assets[a], ts)],
                     timestamp |-> target_version.timestamp])

\* The latest version, or default when there is none.
LatestOr(m, default) ==
    IF version(m, -1).exc = "none" THEN version(m, -1).value ELSE default

\* A slip: nothing is taken over from the latest version.
UnlinkedAssets(m, tolink) ==
    [keys |-> DictKeys(tolink), val |-> [k \in Range(tolink) |-> ""]]

\* A slip: the assets of the latest version that the fetcher did not find
\* are linked too.
LinkingEveryAsset(m, tolink) ==
    LET latest == LatestOr(m, [assets |-> <<>>]).assets
        all == tolink \o SelectSeq(<<"fig1.png", "fig2.png">>,
                                   LAMBDA k : k \in DOMAIN latest)
    IN  [keys |-> DictKeys(all),
         val |-> [k \in Range(all) |->
                     IF k \in DOMAIN latest THEN latest[k] ELSE ""]]

_link_assets(m, tolink) ==
    LET latest == LatestOr(m, [assets |-> <<>>]).assets
    IN  [keys |-> DictKeys(tolink),
         val |-> [k \in Range(tolink) |->
                     IF k \in DOMAIN latest THEN latest[k] ELSE ""]]


\* None where a string is expected: no character has the code -1.
None == <<-1>>

\* `if version_at`: None and the empty string count as not given.
Truthy(value) == value # None /\ value # <<>>

\* A slip: version_index is looked at first, version_at only without it.
PreferringIndex(m, version_index, at, fetch) ==
    LET resolved == IF version_index # -1 \/ ~Truthy(at)
                    THEN version(m, version_index) ELSE version_at(m, at)
    IN  IF resolved.exc # "none" THEN Raise(resolved.exc)
        ELSE IF fetch.exc # "none" THEN Raise(fetch.exc)
        ELSE Return([data |-> resolved.value.data,
                     hrefs |-> [i \in 1..Len(fetch.keys) |->
                        IF fetch.keys[i] \in DOMAIN resolved.value.assets
                        THEN resolved.value.assets[fetch.keys[i]] ELSE ""]])

\* Document.data(version_index, version_at, assets_getter): the content is
\* told by the URL it was fetched from and by the href written on each node
\* the fetcher found, in the fetcher's order.
Document_data(m, version_index, at, fetch) ==
    LET resolved == IF Truthy(at) THEN version_at(m, at)
                    ELSE version(m, version_index)
    IN  IF resolved.exc # "none" THEN Raise(resolved.exc)
        ELSE IF fetch.exc # "none" THEN Raise(fetch.exc)
        ELSE Return([data |-> resolved.value.data,
                     hrefs |-> [i \in 1..Len(fetch.keys) |->
                        IF fetch.keys[i] \in DOMAIN resolved.value.assets
                        THEN resolved.value.assets[fetch.keys[i]] ELSE ""]])


-----------------------------------------------------------------------------
(* Document: commands.  Each yields the exception raised ("none": it       *)
(* returned) and the manifest the Document holds afterwards.               *)

\* now_calls: the number of now() calls made.
Outcome(e, m, n) == [exc |-> e, manifest |-> m, now_calls |-> n]

\* A slip: no guard against the version that is already set.
UnguardedNewVersion(m, data_url, fetch, reads) ==
    LET assets == _link_assets(m, fetch.keys)
    IN  IF fetch.exc # "none" THEN Outcome(fetch.exc, m, 0)
        ELSE Outcome("none", add_version(m, data_url, assets, reads),
                     1 + Len(Seeded(assets)))

\* A slip: the version is appended before the fetcher is asked for its
\* assets.
AppendingBeforeFetch(m, data_url, fetch, reads) ==
    LET assets == _link_assets(m, fetch.keys)
    IN  IF LatestOr(m, [data |-> ""]).data = data_url
        THEN Outcome("VersionAlreadySet", m, 0)
        ELSE Outcome(fetch.exc, add_version(m, data_url, assets, reads),
                     1 + Len(Seeded(assets)))

\* reads[i]: the reading of the i-th now() call, if it is made.
\* A slip: the guard looks at every version, not at the latest only.
GuardingEveryVersion(m, data_url, fetch, reads) ==
    LET assets == _link_assets(m, fetch.keys)
    IN  IF \E i \in 1..Len(m.versions) : m.versions[i].data = data_url
        THEN Outcome("VersionAlreadySet", m, 0)
        ELSE IF fetch.exc # "none" THEN Outcome(fetch.exc, m, 0)
        ELSE Outcome("none", add_version(m, data_url, assets, reads),
                     1 + Len(Seeded(assets)))

new_version(m, data_url, fetch, reads) ==
    LET assets == _link_assets(m, fetch.keys)
    IN  IF LatestOr(m, [data |-> ""]).data = data_url
        THEN Outcome("VersionAlreadySet", m, 0)
        ELSE IF fetch.exc # "none" THEN Outcome(fetch.exc, m, 0)
        ELSE Outcome("none", add_version(m, data_url, assets, reads),
                     1 + Len(Seeded(assets)))

\* A slip: no guard against the asset URI that is already set.
AssetNeverSet(m, asset_id, data_url) == FALSE

\* latest_version.get("assets", {}).get(asset_id) == data_url
AssetAlreadySet(m, asset_id, data_url) ==
    LET latest == LatestOr(m, [assets |-> <<>>]).assets
    IN  asset_id \in DOMAIN latest /\ latest[asset_id] = data_url

new_asset_version(m, asset_id, data_url, reads) ==
    LET added == add_asset_version(m, asset_id, data_url, reads[1])
    IN  IF AssetAlreadySet(m, asset_id, data_url)
        THEN Outcome("VersionAlreadySet", m, 0)
        ELSE IF added.exc = "KeyError" THEN Outcome("ValueError", m, 0)
        ELSE IF added.exc # "none" THEN Outcome(added.exc, m, 0)
        ELSE Outcome("none", added.value, 1)

-----------------------------------------------------------------------------
(* restfulapi: PUT /documents/{document_id}/assets/{asset_slug}.           *)

\* slugify(asset_id) of python-slugify on the asset ids of the model.
slugify(asset_id) ==
    CASE asset_id = "fig1.png" -> "fig1-png"
      [] asset_id = "fig2.png" -> "fig2-png"
      [] OTHER -> asset_id

AssetSlugs == {slugify(a) : a \in AssetIds} \cup AssetIds

\* services.fetch_assets_list: the assets of the latest version of a stored
\* document; a document is stored once it got its first version.
fetch_assets_list(m) ==
    IF m.versions = <<>> THEN Raise("DocumentDoesNotExist")
    ELSE Return(version(m, -1).value.assets)

\* services.register_asset_version: Document.new_asset_version on the stored
\* document, which is then saved.
register_asset_version(m, asset_id, asset_url, reads) ==
    new_asset_version(m, asset_id, asset_url, reads)

HTTPNoContent == [status |-> "204 No Content"]

Response(e, v, m, n) ==
    [exc |-> e, value |-> v, manifest |-> m, now_calls |-> n]

put_asset(m, asset_slug, asset_url, reads) ==
    LET assets_list == fetch_assets_list(m)
        ids == {a \in DOMAIN assets_list.value : slugify(a) = asset_slug}
        asset_id == CHOOSE a \in ids : TRUE
        out == register_asset_version(m, asset_id, asset_url, reads)
    IN  IF assets_list.exc # "none"
        THEN Response("HTTPNotFound", NoValue, m, 0)
        ELSE IF ids = {} THEN Response("HTTPNotFound", NoValue, m, 0)
        ELSE IF out.exc = "VersionAlreadySet"
        THEN Response("none", HTTPNoContent, m, 0)
        ELSE IF out.exc # "none" THEN Response(out.exc, NoValue, m, 0)
        ELSE Response("none", HTTPNoContent, out.manifest, out.now_calls)

-----------------------------------------------------------------------------
(* restfulapi: PUT /documents/{document_id}.                               *)

\* services.register_document: a Document of the id is made, gets its first
\* version and is stored; the id of a stored document is refused (a document
\* is stored once it got its first version).
register_document(m, data_url, fetch, reads) ==
    IF m.versions # <<>> THEN Outcome("DocumentAlreadyExists", m, 0)
    ELSE new_version(new(m.id), data_url, fetch, reads)

\* services.register_document_version: Document.new_version on the stored
\* document, which is then saved.
register_document_version(m, data_url, fetch, reads) ==
    new_version(m, data_url, fetch, reads)

HTTPCreated == [status |-> "201 Created"]

\* A slip: VersionAlreadySet is not caught.
SurfacingVersionAlreadySet(m, data_url, fetch, reads) ==
    LET made == register_document(m, data_url, fetch, reads)
        updated == register_document_version(m, data_url, fetch, reads)
    IN  IF made.exc = "DocumentAlreadyExists"
        THEN (IF updated.exc # "none"
              THEN Response(updated.exc, NoValue, m, 0)
              ELSE Response("none", HTTPNoContent, updated.manifest,
                            updated.now_calls))
        ELSE IF made.exc # "none" THEN Response(made.exc, NoValue, m, 0)
        ELSE Response("none", HTTPCreated, made.manifest, made.now_calls)

put_document(m, data_url, fetch, reads) ==
    LET made == register_document(m, data_url, fetch, reads)
        updated == register_document_version(m, data_url, fetch, reads)
    IN  IF made.exc = "DocumentAlreadyExists"
        THEN (IF updated.exc = "VersionAlreadySet"
              THEN Response("none", HTTPNoContent, m, 0)
              ELSE IF updated.exc # "none"
              THEN Response(updated.exc, NoValue, m, 0)
              ELSE Response("none", HTTPNoContent, updated.manifest,
                            updated.now_calls))
        ELSE IF made.exc # "none" THEN Response(made.exc, NoValue, m, 0)
        ELSE Response("none", HTTPCreated, made.manifest, made.now_calls)

-----------------------------------------------------------------------------
(* fetch_data.  What requests.get and response.raise_for_status do is the   *)
(* upstream's affair: get raises an exception of the requests library or    *)
(* returns a response, and raise_for_status raises HTTPError or does not.   *)

\* The classes of the requests exceptions, each with the classes it is an
\* instance of.
RequestsExceptions ==
    [ConnectionError  |-> {"ConnectionError"},
     ProxyError       |-> {"ProxyError", "ConnectionError"},
     SSLError         |-> {"SSLError", "ConnectionError"},
     Timeout          |-> {"Timeout"},
     ConnectTimeout   |-> {"ConnectTimeout", "ConnectionError", "Timeout"},
     ReadTimeout      |-> {"ReadTimeout", "Timeout"},
     InvalidSchema    |-> {"InvalidSchema"},
     MissingSchema    |-> {"MissingSchema"},
     InvalidURL       |-> {"InvalidURL"},
     InvalidProxyURL  |-> {"InvalidProxyURL", "InvalidURL"},
     TooManyRedirects |-> {"TooManyRedirects"}]

StatusCodes == {200, 304, 399, 400, 404, 499, 500, 503, 599, 600}

Content == "<article/>"

Upstreams ==
    {[raises |-> e, status_code |-> 0, http_error |-> FALSE] :
        e \in DOMAIN RequestsExceptions}
    \cup {[raises |-> "none", status_code |-> c, http_error |-> h] :
             c \in StatusCodes, h \in BOOLEAN}

\* except (classes) as exc: the exception is an instance of one of them.
Caught(e, classes) == RequestsExceptions[e] \cap classes # {}

\* A slip: the bounds of the status ranges are left out.
OpenRanges(upstream) ==
    LET code == upstream.status_code
    IN  IF upstream.raises # "none"
        THEN (IF Caught(upstream.raises, {"ConnectionError", "Timeout"})
              THEN Raise("RetryableError")
              ELSE IF Caught(upstream.raises,
                             {"InvalidSchema", "MissingSchema", "InvalidURL"})
              THEN Raise("NonRetryableError")
              ELSE Raise(upstream.raises))
        ELSE IF upstream.http_error
        THEN (IF 400 < code /\ code < 500 THEN Raise("NonRetryableError")
              ELSE IF 500 < code /\ code < 600 THEN Raise("RetryableError")
              ELSE Raise("HTTPError"))
        ELSE Return(Content)

fetch_data(upstream) ==
    LET code == upstream.status_code
    IN  IF upstream.raises # "none"
        THEN (IF Caught(upstream.raises, {"ConnectionError", "Timeout"})
              THEN Raise("RetryableError")
              ELSE IF Caught(upstream.raises,
                             {"InvalidSchema", "MissingSchema", "InvalidURL"})
              THEN Raise("NonRetryableError")
              ELSE Raise(upstream.raises))
        ELSE IF upstream.http_error
        THEN (IF 400 <= code /\ code < 500 THEN Raise("NonRetryableError")
              ELSE IF 500 <= code /\ code < 600 THEN Raise("RetryableError")
              ELSE Raise("HTTPError"))
        ELSE Return(Content)

-----------------------------------------------------------------------------
(* The state machine: one Document and the clock.                          *)

\* The caller and the Document take turns: call is the call being answered
\* (Idle: none, the caller may make one) and result is its outcome.  Every
\* method runs to completion, so a call is one step and its return another.
Idle == [op |-> "idle"]

Init ==
    /\ manifest = new(DocumentId)
    /\ bundle = NoValue
    /\ heap = NoValue
    /\ clock = 0
    /\ call = Idle
    /\ result = Return(NoValue)
    /\ commands = 0

\* The most now() calls one command makes: add_version stamps the version
\* and every asset it seeds.
MaxReads == 1 + Cardinality(AssetIds)

\* The clock readings a command may see: the calls it makes read a clock
\* that never goes back; the readings it does not use are not taken.
Readings(now_calls) ==
    {reads \in NowReads(MaxReads) :
        \A i \in (now_calls + 1)..MaxReads :
            reads[i] = IF i = 1 THEN clock ELSE reads[i - 1]}

\* The effect of a command on the Document, the clock and the count of
\* commands that changed the manifest.
Effect(out, reads) ==
    /\ out.manifest # manifest => commands < MaxCommands
    /\ manifest' = out.manifest
    /\ clock' = reads[MaxReads]
    /\ commands' = IF out.manifest # manifest THEN commands + 1 ELSE commands
    /\ UNCHANGED <<bundle, heap>>

Raised(out) == IF out.exc = "none" THEN Return(NoValue) ELSE Raise(out.exc)

\* The clock readings are drawn once it is known how many the command takes
\* (a number that does not depend on them).
Unread == [i \in 1..MaxReads |-> clock]

NewVersion(data_url, fetch) ==
    /\ call = Idle
    /\ \E reads \in Readings(new_version(manifest, data_url, fetch,
                                         Unread).now_calls) :
          LET out == new_version(manifest, data_url, fetch, reads)
          IN  /\ Effect(out, reads)
              /\ call' = [op |-> "new_version", data_url |-> data_url,
                          fetch |-> fetch]
              /\ result' = Raised(out)

NewAssetVersion(asset_id, data_url) ==
    /\ call = Idle
    /\ \E reads \in Readings(new_asset_version(manifest, asset_id, data_url,
                                               Unread).now_calls) :
          LET out == new_asset_version(manifest, asset_id, data_url, reads)
          IN  /\ Effect(out, reads)
              /\ call' = [op |-> "new_asset_version", asset_id |-> asset_id,
                          data_url |-> data_url]
              /\ result' = Raised(out)

PutAsset(asset_slug, asset_url) ==
    /\ call = Idle
    /\ \E reads \in Readings(put_asset(manifest, asset_slug, asset_url,
                                       Unread).now_calls) :
          LET out == put_asset(manifest, asset_slug, asset_url, reads)
          IN  /\ Effect(out, reads)
              /\ call' = [op |-> "put_asset", asset_slug |-> asset_slug,
                          asset_url |-> asset_url]
              /\ result' = [exc |-> out.exc, value |-> out.value]

PutDocument(data_url, fetch) ==
    /\ call = Idle
    /\ \E reads \in Readings(put_document(manifest, data_url, fetch,
                                           Unread).now_calls) :
          LET out == put_document(manifest, data_url, fetch, reads)
          IN  /\ Effect(out, reads)
              /\ call' = [op |-> "put_document", data_url |-> data_url,
                          fetch |-> fetch]
              /\ result' = [exc |-> out.exc, value |-> out.value]

Version(index) ==
    /\ call = Idle
    /\ call' = [op |-> "version", index |-> index]
    /\ result' = version(manifest, index)
    /\ UNCHANGED <<manifest, bundle, heap, clock, commands>>

VersionAt(timestamp) ==
    /\ call = Idle
    /\ call' = [op |-> "version_at", timestamp |-> timestamp]
    /\ result' = version_at(manifest, timestamp)
    /\ UNCHANGED <<manifest, bundle, heap, clock, commands>>

FetchData(upstream) ==
    /\ call = Idle
    /\ call' = [op |-> "fetch_data", upstream |-> upstream]
    /\ result' = fetch_data(upstream)
    /\ UNCHANGED <<manifest, bundle, heap, clock, commands>>

Data(version_index, at, fetch) ==
    /\ call = Idle
    /\ call' = [op |-> "data", version_index |-> version_index,
                version_at |-> at, fetch |-> fetch]
    /\ result' = Document_data(manifest, version_index, at, fetch)
    /\ UNCHANGED <<manifest, bundle, heap, clock, commands>>

\* The call returns (or raises) to the caller.
Returns ==
    /\ call # Idle
    /\ call' = Idle
    /\ result' = Return(NoValue)
    /\ UNCHANGED <<manifest, bundle, heap, clock, commands>>

-----------------------------------------------------------------------------
(* Query inputs.                                                           *)

Date(day) ==
    Pad4(Epoch.year) \o <<Chr.dash>> \o Pad2(Epoch.month) \o <<Chr.dash>>
    \o Pad2(day)

Dates == {Date(d) : d \in (Epoch.day - 1)..(Epoch.day + 1)}

\* The instants a reading can show, cut to minutes and to seconds.
Minutes ==
    {SubSeq(utcnow(k), 1, 16) \o <<Chr.Z>> : k \in 0..MaxClock}

Seconds ==
    {SubSeq(utcnow(k), 1, 19) \o <<Chr.Z>> : k \in 0..MaxClock}

Instants == {utcnow(k) : k \in 0..MaxClock}

Timestamps ==
    Dates \cup Minutes \cup Seconds \cup Instants
    \cup {d \o EndOfDay : d \in Dates}
    \cup {<<>>, Date(Epoch.day) \o <<Chr.nl>>}

\* Every index that version() accepts and one beyond at each end.
Indexes(m) == (0 - Len(m.versions) - 1)..Len(m.versions)

\* What Document.data is asked: the latest or the first version, or the
\* version at a time; the fetcher fails, or finds the nodes of two assets.
DataIndexes == {-1, 0}

DataTimestamps == {None, <<>>} \cup Seconds

DataFetches ==
    {f \in FetchOutcomes :
        f.exc = "RetryableError" \/ f.keys = <<"fig1.png", "fig2.png">>}

Next ==
    \/ \E data_url \in DataUrls, fetch \in FetchOutcomes :
          NewVersion(data_url, fetch)
    \/ \E asset_id \in AssetIds, data_url \in AssetUrls :
          NewAssetVersion(asset_id, data_url)
    \/ \E asset_slug \in AssetSlugs, asset_url \in AssetUrls :
          PutAsset(asset_slug, asset_url)
    \/ \E data_url \in DataUrls, fetch \in FetchOutcomes :
          PutDocument(data_url, fetch)
    \/ \E index \in Indexes(manifest) : Version(index)
    \/ \E timestamp \in Timestamps : VersionAt(timestamp)
    \/ \E version_index \in DataIndexes, at \in DataTimestamps,
          fetch \in DataFetches : Data(version_index, at, fetch)
    \/ Returns

Spec == Init /\ [][Next]_vars

\* A Document rehydrated from the manifest of a stored document,
\* Document(manifest=...): its one version was made, with fig1.png bound,
\* one clock reading before the first reading of this life.
Stored ==
    add_version(new(DocumentId), "http://x/v1.xml",
                [keys |-> <<"fig1.png">>,
                 val |-> [a \in {"fig1.png"} |-> "http://x/a1"]],
                [i \in 1..MaxReads |-> -1])

StoredInit ==
    /\ manifest = Stored
    /\ bundle = NoValue
    /\ heap = NoValue
    /\ clock = 0
    /\ call = Idle
    /\ result = Return(NoValue)
    /\ commands = 0

StoredSpec == StoredInit /\ [][Next]_vars


-----------------------------------------------------------------------------
(* BundleManifest.  A manifest is the dict                                 *)
(* {id, created, updated, items, metadata} and, beside these keys, the     *)
(* components set on it (components: the other keys of the dict).          *)

BundleManifest_new(bundle_id, t) ==
    [id |-> bundle_id, created |-> t, updated |-> t, items |-> <<>>,
     metadata |-> <<>>, components |-> <<>>]

\* metadata.setdefault(name, []).append((_now, value)); updated = _now
set_metadata(b, name, value, t) ==
    LET old == b.metadata
        timeline(n) == IF n \in DOMAIN old THEN old[n] ELSE <<>>
    IN  [b EXCEPT
            !.metadata = [n \in DOMAIN old \cup {name} |->
                             IF n = name
                             THEN Append(timeline(n), <<t, value>>)
                             ELSE timeline(n)],
            !.updated = t]

\* A slip: the first entry of the timeline is read, [0][1].
OldestMetadata(b, name, default) ==
    IF name \notin DOMAIN b.metadata \/ b.metadata[name] = <<>> THEN default
    ELSE b.metadata[name][1][2]

\* bundle["metadata"].get(name, [])[-1][1], default on IndexError
get_metadata(b, name, default) ==
    IF name \notin DOMAIN b.metadata \/ b.metadata[name] = <<>> THEN default
    ELSE b.metadata[name][Len(b.metadata[name])][2]

\* bundle["metadata"].get(name, [])
get_metadata_all(b, name) ==
    IF name \in DOMAIN b.metadata THEN b.metadata[name] ELSE <<>>

\* A slip: the item is appended although it is there already.
UncheckedAddItem(b, item, t) ==
    Return([b EXCEPT !.items = Append(@, item), !.updated = t])

add_item(b, item, t) ==
    IF item \in Range(b.items) THEN Raise("AlreadyExists")
    ELSE Return([b EXCEPT !.items = Append(@, item), !.updated = t])

\* list.insert(index, item): a negative index counts from the end, and an
\* index beyond either end is that end.
ListInsert(items, index, item) ==
    LET n == Len(items)
        at == IF index < 0
              THEN (IF n + index < 0 THEN 0 ELSE n + index)
              ELSE (IF index > n THEN n ELSE index)
    IN  SubSeq(items, 1, at) \o <<item>> \o SubSeq(items, at + 1, n)

\* A slip: the item is inserted although it is there already.
UncheckedInsertItem(b, index, item, t) ==
    Return([b EXCEPT !.items = ListInsert(@, index, item), !.updated = t])

insert_item(b, index, item, t) ==
    IF item \in Range(b.items) THEN Raise("AlreadyExists")
    ELSE Return([b EXCEPT !.items = ListInsert(@, index, item),
                          !.updated = t])

\* list.remove(item): the first occurrence goes.
ListRemove(items, item) ==
    LET at == SetMin({i \in 1..Len(items) : items[i] = item})
    IN  SubSeq(items, 1, at - 1) \o SubSeq(items, at + 1, Len(items))

\* A slip: the item that follows goes with it.
RemovingTwo(b, item, t) ==
    LET at == SetMin({i \in 1..Len(b.items) : b.items[i] = item})
    IN  IF item \notin Range(b.items) THEN Raise("DoesNotExist")
        ELSE Return([b EXCEPT
                        !.items = SubSeq(@, 1, at - 1)
                                  \o SubSeq(@, at + 2, Len(@)),
                        !.updated = t])

remove_item(b, item, t) ==
    IF item \notin Range(b.items) THEN Raise("DoesNotExist")
    ELSE Return([b EXCEPT !.items = ListRemove(@, item), !.updated = t])

set_component(b, name, value, t) ==
    [b EXCEPT
        !.components = [n \in DOMAIN @ \cup {name} |->
                           IF n = name THEN value ELSE @[n]],
        !.updated = t]

\* A slip: the default is returned whatever is set.
DefaultComponent(b, name, default) == default

\* components_bundle.get(name, default)
get_component(b, name, default) ==
    IF name \in DOMAIN b.components THEN b.components[name] ELSE default

\* del _components_bundle[name]; the clock is not read.
remove_component(b, name) ==
    IF name \notin DOMAIN b.components THEN Raise("DoesNotExist")
    ELSE Return([b EXCEPT
                    !.components = [n \in DOMAIN @ \ {name} |-> @[n]]])

-----------------------------------------------------------------------------
(* DocumentsBundle and Journal: the aggregates over a BundleManifest.      *)

SUBJECT_AREAS ==
    <<"AGRICULTURAL SCIENCES", "APPLIED SOCIAL SCIENCES",
      "BIOLOGICAL SCIENCES", "ENGINEERING", "EXACT AND EARTH SCIENCES",
      "HEALTH SCIENCES", "HUMAN SCIENCES", "LINGUISTIC, LITERATURE AND ARTS">>

\* Python values handed to the typed setters.
PyInt(n) == [type |-> "int", int |-> n]

PyStr(chars) == [type |-> "str", chars |-> chars]

PyTuple(elems) == [type |-> "tuple", elems |-> elems]

PyNone == [type |-> "NoneType"]

\* str(n) of an int n >= 0: its decimal digits.
RECURSIVE Decimal(_)
Decimal(n) ==
    IF n < 10 THEN <<Chr.zero + n>>
    ELSE Decimal(n \div 10) \o <<Chr.zero + (n % 10)>>

\* str(value)
str(value) == IF value.type = "int" THEN Decimal(value.int) ELSE value.chars

\* re.match(r"^\d{4}$", s), for s of ASCII characters.
_year_pattern(s) ==
    LET t == BeforeFinalNewline(s)
    IN  Len(t) = 4 /\ \A i \in 1..4 : IsDigit(t[i])

\* The outcome of a method of the aggregate: the exception raised ("none":
\* it returned) and the manifest the aggregate holds afterwards.
Held(e, m) == [exc |-> e, manifest |-> m]

Swap(m, made) ==
    IF made.exc = "none" THEN Held("none", made.value) ELSE Held(made.exc, m)

publication_year_setter(m, value, t) ==
    LET _value == str(value)
    IN  IF ~_year_pattern(_value) THEN Held("ValueError", m)
        ELSE Held("none", set_metadata(m, "publication_year", _value, t))

\* tuple(value): the elements of a tuple, the characters of a str (each a
\* str of one character); None is not iterable.
tuple(value) ==
    IF value.type = "tuple" THEN Return(value.elems)
    ELSE IF value.type = "str"
    THEN Return(value.chars)
    ELSE Raise("TypeError")

\* A slip: only the first element is looked up in the vocabulary.
FirstInvalid(value) ==
    IF value # <<>> /\ value[1] \notin Range(SUBJECT_AREAS)
    THEN <<value[1]>> ELSE <<>>

\* [item for item in value if item not in SUBJECT_AREAS]
invalid(value) ==
    SelectSeq(value, LAMBDA item : item \notin Range(SUBJECT_AREAS))

subject_areas_setter(m, value, t) ==
    LET made == tuple(value)
    IN  IF made.exc # "none" THEN Held(made.exc, m)
        ELSE IF invalid(made.value) # <<>> THEN Held("ValueError", m)
        ELSE Held("none", set_metadata(m, "subject_areas", made.value, t))

\* add_document, add_issue
add_document(m, item, t) == Swap(m, add_item(m, item, t))

\* insert_document, insert_issue
insert_document(m, index, item, t) == Swap(m, insert_item(m, index, item, t))

\* remove_document, remove_issue
remove_document(m, item, t) == Swap(m, remove_item(m, item, t))

\* ahead_of_print_bundle = value
ahead_of_print_bundle_setter(m, value, t) ==
    Held("none", set_component(m, "aop", value, t))

remove_ahead_of_print_bundle(m) == Swap(m, remove_component(m, "aop"))

ahead_of_print_bundle(m) == get_component(m, "aop", "")

PyDict(items) == [type |-> "dict", items |-> items]

\* dict(value): a copy of a dict, the empty dict of an empty str; a str
\* with characters is no sequence of pairs and the others are not iterable.
dict(value) ==
    IF value.type = "dict" THEN Return(value.items)
    ELSE IF value.type = "str"
    THEN (IF value.chars = <<>> THEN Return(<<>>) ELSE Raise("ValueError"))
    ELSE Raise("TypeError")

\* Journal.status
status_setter(m, value, t) ==
    IF dict(value).exc \in {"TypeError", "ValueError"}
    THEN Held("TypeError", m)
    ELSE Held("none", set_metadata(m, "status", dict(value).value, t))

status(m) == get_metadata(m, "status", "")

status_history(m) == get_metadata_all(m, "status")

-----------------------------------------------------------------------------
(* The state machine of one DocumentsBundle or Journal.  bundle is the     *)
(* object: its class and the manifest it holds.                            *)

BundleId == "bundle"

Classes == {"DocumentsBundle", "Journal"}

Items == {"item1", "item2", "item3"}

\* Before the last item (or first), first, and beyond the end.
InsertIndexes == {-1, 0, 9}

\* 2018, 999, "2018", "2018\n", "20-8"
PublicationYears ==
    {PyInt(2018), PyInt(999), PyStr(Pad4(2018)),
     PyStr(Pad4(2018) \o <<Chr.nl>>),
     PyStr(Pad2(20) \o <<Chr.dash, Chr.zero + 8>>)}

SubjectAreas ==
    {PyTuple(SUBJECT_AREAS), PyTuple(<<"ENGINEERING">>),
     PyTuple(<<"LINGUISTIC, LITERATURE AND ARTS">>),
     PyTuple(<<"LINGUISTIC LITERATURE AND ARTS">>),
     PyTuple(<<"engineering">>),
     PyTuple(<<"ENGINEERING", "MATHEMATICS">>),
     PyStr(<<"E", "N", "G">>), PyNone}

AheadOfPrintBundles == {"aop-1", "aop-2"}

\* {"status": "current"}, {"status": "suspended"}, None
Statuses ==
    {PyDict([status |-> "current"]), PyDict([status |-> "suspended"]), PyNone}

BundleInit ==
    /\ manifest = NoValue
    /\ heap = NoValue
    /\ bundle \in {[class |-> c,
                    _manifest |-> BundleManifest_new(BundleId, utcnow(0))] :
                      c \in Classes}
    /\ clock = 0
    /\ call = Idle
    /\ result = Return(NoValue)
    /\ commands = 0

\* The aggregate swaps its manifest for the one the method made; t is the
\* reading of the clock at the time of the call.
Mutate(out, t) ==
    /\ IF out.manifest # bundle._manifest
       THEN /\ commands < MaxMutations
            /\ commands' = commands + 1
            /\ clock' = t
       ELSE /\ t = clock
            /\ UNCHANGED <<commands, clock>>
    /\ bundle' = [bundle EXCEPT !._manifest = out.manifest]
    /\ result' = Raised(out)
    /\ UNCHANGED <<manifest, heap>>

\* The name of a method on items: of Journal or of DocumentsBundle.
ItemsMethod(of_journal, of_bundle) ==
    IF bundle.class = "Journal" THEN of_journal ELSE of_bundle

AddDocument(item) ==
    /\ call = Idle
    /\ \E t \in clock..MaxClock :
          Mutate(add_document(bundle._manifest, item, utcnow(t)), t)
    /\ call' = [op |-> ItemsMethod("add_issue", "add_document"),
                item |-> item]

InsertDocument(index, item) ==
    /\ call = Idle
    /\ \E t \in clock..MaxClock :
          Mutate(insert_document(bundle._manifest, index, item, utcnow(t)), t)
    /\ call' = [op |-> ItemsMethod("insert_issue", "insert_document"),
                index |-> index, item |-> item]

RemoveDocument(item) ==
    /\ call = Idle
    /\ \E t \in clock..MaxClock :
          Mutate(remove_document(bundle._manifest, item, utcnow(t)), t)
    /\ call' = [op |-> ItemsMethod("remove_issue", "remove_document"),
                item |-> item]

PublicationYear(value) ==
    /\ call = Idle
    /\ bundle.class = "DocumentsBundle"
    /\ \E t \in clock..MaxClock :
          Mutate(publication_year_setter(bundle._manifest, value, utcnow(t)),
                 t)
    /\ call' = [op |-> "publication_year", value |-> value]

SubjectAreasSet(value) ==
    /\ call = Idle
    /\ bundle.class = "Journal"
    /\ \E t \in clock..MaxClock :
          Mutate(subject_areas_setter(bundle._manifest, value, utcnow(t)), t)
    /\ call' = [op |-> "subject_areas", value |-> value]

AheadOfPrintBundle(value) ==
    /\ call = Idle
    /\ bundle.class = "Journal"
    /\ \E t \in clock..MaxClock :
          Mutate(ahead_of_print_bundle_setter(bundle._manifest, value,
                                              utcnow(t)), t)
    /\ call' = [op |-> "ahead_of_print_bundle", value |-> value]

RemoveAheadOfPrintBundle ==
    /\ call = Idle
    /\ bundle.class = "Journal"
    /\ \E t \in clock..MaxClock :
          Mutate(remove_ahead_of_print_bundle(bundle._manifest), t)
    /\ call' = [op |-> "remove_ahead_of_print_bundle"]

StatusSet(value) ==
    /\ call = Idle
    /\ bundle.class = "Journal"
    /\ \E t \in clock..MaxClock :
          Mutate(status_setter(bundle._manifest, value, utcnow(t)), t)
    /\ call' = [op |-> "status", value |-> value]

\* The getters read a deepcopy of the manifest.
Status ==
    /\ call = Idle
    /\ bundle.class = "Journal"
    /\ call' = [op |-> "status_getter"]
    /\ result' = Return(status(bundle._manifest))
    /\ UNCHANGED <<manifest, bundle, heap, clock, commands>>

StatusHistory ==
    /\ call = Idle
    /\ bundle.class = "Journal"
    /\ call' = [op |-> "status_history"]
    /\ result' = Return(status_history(bundle._manifest))
    /\ UNCHANGED <<manifest, bundle, heap, clock, commands>>

AheadOfPrintBundleGetter ==
    /\ call = Idle
    /\ bundle.class = "Journal"
    /\ call' = [op |-> "ahead_of_print_bundle_getter"]
    /\ result' = Return(ahead_of_print_bundle(bundle._manifest))
    /\ UNCHANGED <<manifest, bundle, heap, clock, commands>>

BundleNext ==
    \/ \E item \in Items : AddDocument(item)
    \/ \E index \in InsertIndexes, item \in Items :
          InsertDocument(index, item)
    \/ \E item \in Items : RemoveDocument(item)
    \/ \E value \in PublicationYears : PublicationYear(value)
    \/ \E value \in SubjectAreas : SubjectAreasSet(value)
    \/ \E value \in AheadOfPrintBundles : AheadOfPrintBundle(value)
    \/ RemoveAheadOfPrintBundle
    \/ AheadOfPrintBundleGetter
    \/ \E value \in Statuses : StatusSet(value)
    \/ Status
    \/ StatusHistory
    \/ Returns

BundleSpec == BundleInit /\ [][BundleNext]_vars

-----------------------------------------------------------------------------
(* Objects and references.  heap.cells[a] is the value of the object at    *)
(* address a; heap.self is the address in self._manifest; heap.held are    *)
(* the references the caller holds, each with where it got it: it passed   *)
(* the object to the constructor, or a method returned it.                 *)

\* A slip: the object itself instead of a copy of it.
NoCopy(cells, addr) == [cells |-> cells, addr |-> addr]

\* deepcopy(manifest) in the functions of DocumentManifest and
\* BundleManifest: a new object with the same value.
deepcopy(cells, addr) ==
    [cells |-> Append(cells, cells[addr]), addr |-> Len(cells) + 1]

\* The property manifest of the aggregates: deepcopy(self._manifest).
manifest_getter(cells, self) ==
    [cells |-> Append(cells, cells[self]), addr |-> Len(cells) + 1]

\* DocumentsBundle.data, Journal.data: every metadata timeline collapsed to
\* its latest value.
data(m) ==
    [m EXCEPT !.metadata = [n \in DOMAIN @ |-> @[n][Len(@[n])][2]]]

HeapClasses == {"Document"} \cup Classes

NewManifest(class) ==
    IF class = "Document" THEN new(DocumentId)
    ELSE BundleManifest_new(BundleId, utcnow(0))

\* A manifest from an earlier life of the aggregate, which the caller holds
\* and passes to the constructor.
Rehydrated(class) ==
    IF class = "Document"
    THEN add_version(new(DocumentId), "http://x/v1.xml",
                     [keys |-> <<"fig1.png">>,
                      val |-> [a \in {"fig1.png"} |-> "http://x/a1"]],
                     [i \in 1..(1 + Cardinality(AssetIds)) |-> 0])
    ELSE add_item(BundleManifest_new(BundleId, utcnow(0)), "item1",
                  utcnow(0)).value

\* __init__: self.manifest = manifest or new(id)
HeapInit ==
    /\ manifest = NoValue
    /\ bundle = NoValue
    /\ heap \in
          {[class |-> c, cells |-> <<NewManifest(c)>>, self |-> 1,
            held |-> {}] : c \in HeapClasses}
          \cup {[class |-> c, cells |-> <<Rehydrated(c)>>, self |-> 1,
                 held |-> {[addr |-> 1, origin |-> "constructor"]}] :
                   c \in HeapClasses}
    /\ clock = 0
    /\ call = Idle
    /\ result = Return(NoValue)
    /\ commands = 0

\* A method of DocumentManifest or BundleManifest copies the manifest,
\* changes the copy until it has the value made, and the aggregate assigns
\* it to self._manifest; a method that raises leaves everything as it was.
Assign(out, t) ==
    LET copy == deepcopy(heap.cells, heap.self)
    IN  /\ IF out.exc = "none"
           THEN /\ Len(heap.cells) < MaxObjects
                /\ heap' = [heap EXCEPT
                               !.cells = [copy.cells EXCEPT
                                             ![copy.addr] = out.manifest],
                               !.self = copy.addr]
                /\ clock' = t
           ELSE /\ t = clock
                /\ UNCHANGED <<heap, clock>>
        /\ result' = Raised(out)
        /\ UNCHANGED <<manifest, bundle, commands>>

\* A method hands the caller a copy of the manifest, or the part of the
\* copy that it made of it.
Hand(made) ==
    LET copy == manifest_getter(heap.cells, heap.self)
    IN  /\ IF made.exc = "none"
           THEN /\ Len(heap.cells) < MaxObjects
                /\ heap' = [heap EXCEPT
                               !.cells = [copy.cells EXCEPT
                                             ![copy.addr] = made.value],
                               !.held = @ \cup {[addr |-> copy.addr,
                                                 origin |-> "returned"]}]
                /\ result' = Return([ref |-> copy.addr])
           ELSE /\ UNCHANGED heap
                /\ result' = made
        /\ UNCHANGED <<manifest, bundle, clock, commands>>

\* The value the aggregate holds.
Self == heap.cells[heap.self]

\* The clock read t by every now() of one call.
AllAt(t) == [i \in 1..(1 + Cardinality(AssetIds)) |-> t]

HeapFetch == [exc |-> "none", keys |-> <<"fig1.png">>]

HeapItems == {"item1", "item2"}

GetManifest ==
    /\ call = Idle
    /\ Hand(Return(Self))
    /\ call' = [op |-> "manifest"]

GetVersion(index) ==
    /\ call = Idle
    /\ heap.class = "Document"
    /\ Hand(version(Self, index))
    /\ call' = [op |-> "version", index |-> index]

GetVersionAt(timestamp) ==
    /\ call = Idle
    /\ heap.class = "Document"
    /\ Hand(version_at(Self, timestamp))
    /\ call' = [op |-> "version_at", timestamp |-> timestamp]

GetData ==
    /\ call = Idle
    /\ heap.class # "Document"
    /\ Hand(Return(data(Self)))
    /\ call' = [op |-> "data"]

HeapNewVersion(data_url) ==
    /\ call = Idle
    /\ heap.class = "Document"
    /\ \E t \in clock..MaxClock :
          Assign(new_version(Self, data_url, HeapFetch, AllAt(t)), t)
    /\ call' = [op |-> "new_version", data_url |-> data_url,
                fetch |-> HeapFetch]

HeapNewAssetVersion(asset_id, data_url) ==
    /\ call = Idle
    /\ heap.class = "Document"
    /\ \E t \in clock..MaxClock :
          Assign(new_asset_version(Self, asset_id, data_url, AllAt(t)), t)
    /\ call' = [op |-> "new_asset_version", asset_id |-> asset_id,
                data_url |-> data_url]

HeapAddDocument(item) ==
    /\ call = Idle
    /\ heap.class # "Document"
    /\ \E t \in clock..MaxClock :
          Assign(add_document(Self, item, utcnow(t)), t)
    /\ call' = [op |-> IF heap.class = "Journal" THEN "add_issue"
                       ELSE "add_document",
                item |-> item]

HeapRemoveDocument(item) ==
    /\ call = Idle
    /\ heap.class # "Document"
    /\ \E t \in clock..MaxClock :
          Assign(remove_document(Self, item, utcnow(t)), t)
    /\ call' = [op |-> IF heap.class = "Journal" THEN "remove_issue"
                       ELSE "remove_document",
                item |-> item]

\* What the caller does to a dict it holds: it assigns to a key of it.
Scribbled(value) ==
    IF "id" \in DOMAIN value THEN [value EXCEPT !.id = "changed"]
    ELSE [value EXCEPT !.data = "changed"]

\* The caller changes in place an object it holds.
CallerMutates(ref) ==
    /\ call = Idle
    /\ heap' = [heap EXCEPT !.cells[ref.addr] = Scribbled(@)]
    /\ call' = [op |-> "caller mutates", ref |-> ref]
    /\ result' = Return(NoValue)
    /\ UNCHANGED <<manifest, bundle, clock, commands>>

HeapNext ==
    \/ GetManifest
    \/ \E index \in {-1, 0} : GetVersion(index)
    \/ \E timestamp \in Dates : GetVersionAt(timestamp)
    \/ GetData
    \/ \E data_url \in DataUrls : HeapNewVersion(data_url)
    \/ \E asset_id \in AssetIds, data_url \in AssetUrls :
          HeapNewAssetVersion(asset_id, data_url)
    \/ \E item \in HeapItems : HeapAddDocument(item)
    \/ \E item \in HeapItems : HeapRemoveDocument(item)
    \/ \E ref \in heap.held : CallerMutates(ref)
    \/ \E upstream \in Upstreams : FetchData(upstream)
    \/ Returns

HeapSpec == HeapInit /\ [][HeapNext]_vars

-----------------------------------------------------------------------------
(* Properties.                                                             *)

IsPrefix(s, t) == Len(s) <= Len(t) /\ SubSeq(t, 1, Len(s)) = s

LatestVersion(m) == m.versions[Len(m.versions)]

\* Every version of m is in n at the same place with the same data and
\* timestamp, and every asset timeline of m is a prefix of the same one of n.
Extends(m, n) ==
    /\ Len(m.versions) <= Len(n.versions)
    /\ \A i \in 1..Len(m.versions) :
          /\ n.versions[i].data = m.versions[i].data
          /\ n.versions[i].timestamp = m.versions[i].timestamp
          /\ \A a \in DOMAIN m.versions[i].assets :
                /\ a \in DOMAIN n.versions[i].assets
                /\ IsPrefix(m.versions[i].assets[a], n.versions[i].assets[a])

Succeeded(op) == call'.op = op /\ result'.exc = "none"

\* C1: append-only.  Every successful new_version or new_asset_version step
\* keeps all versions (data, timestamp) in place and in order, and keeps
\* every asset timeline as a prefix of the same timeline afterwards.
C1_AppendOnly ==
    [][Succeeded("new_version") \/ Succeeded("new_asset_version")
          => Extends(manifest, manifest')]_vars

\* A successful new_asset_version on an asset that already had an entry.
C1_Witness ==
    /\ call.op = "new_asset_version"
    /\ result.exc = "none"
    /\ \E a \in DOMAIN LatestVersion(manifest).assets :
          Len(LatestVersion(manifest).assets[a]) >= 2

\* C2: idempotent no-op.  With at least one version, new_version with the
\* data URI of the latest version raises VersionAlreadySet and leaves the
\* manifest as it was.
C2_VersionAlreadySet ==
    [][/\ call'.op = "new_version"
       /\ manifest.versions # <<>>
       /\ call'.data_url = LatestVersion(manifest).data
       => result'.exc = "VersionAlreadySet" /\ manifest' = manifest]_vars

\* new_version was refused on a Document that has versions.
C2_Witness ==
    /\ call.op = "new_version"
    /\ result.exc = "VersionAlreadySet"
    /\ manifest.versions # <<>>

SetMax(S) == CHOOSE x \in S : \A y \in S : y <= x

WellFormed == {T \in Timestamps : _timestamp_pattern(T)}

\* The places of the stamps at or before ts.
AtOrBefore(stamps, ts) == {i \in 1..Len(stamps) : StrLeq(stamps[i], ts)}

\* Those among them that bear the greatest such stamp.
Greatest(stamps, ts) ==
    {i \in AtOrBefore(stamps, ts) :
        \A j \in AtOrBefore(stamps, ts) : StrLeq(stamps[j], stamps[i])}

NonDecreasing(stamps) ==
    \A i \in 1..Len(stamps) : \A j \in i..Len(stamps) :
        StrLeq(stamps[i], stamps[j])

\* The value of the last entry stamped at or before ts, "" without one.
LastAtOrBefore(uris, ts) ==
    IF AtOrBefore(EntryStamps(uris), ts) = {} THEN ""
    ELSE uris[SetMax(AtOrBefore(EntryStamps(uris), ts))][2]

\* C3: on a Document whose version timestamps never decrease, version_at(T)
\* for a well-formed T returns the data URI of the last version stamped at
\* or before T, and raises ValueError when there is none.
C3_LastVersionAtOrBefore ==
    NonDecreasing(VersionStamps(manifest.versions)) =>
        \A T \in WellFormed :
            LET q == AtOrBefore(VersionStamps(manifest.versions), Widened(T))
                got == version_at(manifest, T)
            IN  IF q = {} THEN got.exc = "ValueError"
                ELSE /\ got.exc = "none"
                     /\ got.value.data = manifest.versions[SetMax(q)].data

HasFraction(ts) == Chr.dot \in Range(ts)

\* C4: version_at of the timestamp of a version, as utcnow wrote it with
\* fractional seconds, succeeds and yields the data URI of that version.
C4_OwnTimestamp ==
    \A i \in 1..Len(manifest.versions) :
        LET v == manifest.versions[i]
        IN  HasFraction(v.timestamp) =>
                /\ version_at(manifest, v.timestamp).exc = "none"
                /\ version_at(manifest, v.timestamp).value.data = v.data

\* C5: date widening.  version_at of a bare date and version_at of that date
\* followed by T23:59:59.999999Z have the same outcome.
C5_DateWidening ==
    \A D \in Dates :
        version_at(manifest, D) = version_at(manifest, D \o EndOfDay)

\* C7: version_at(T) reports, for each asset of the version it selects, the
\* value of the last entry of that asset's timeline stamped at or before T,
\* or "" without one.  Stated here for the timelines whose stamps never
\* decrease.
C7_AssetsAtTime ==
    \A T \in WellFormed :
        LET got == version_at(manifest, T)
        IN  got.exc = "none" =>
                \E i \in 1..Len(manifest.versions) :
                    LET v == manifest.versions[i]
                    IN  /\ v.data = got.value.data
                        /\ v.timestamp = got.value.timestamp
                        /\ \A a \in DOMAIN v.assets :
                              NonDecreasing(EntryStamps(v.assets[a])) =>
                                  got.value.assets[a] =
                                      LastAtOrBefore(v.assets[a], Widened(T))

\* C8: tie-breaking.  When several versions, or several entries of a
\* timeline of the selected version, bear the greatest stamp at or before T,
\* version_at(T) returns the one that comes last.
C8_TieBreaking ==
    \A T \in WellFormed :
        LET ts == Widened(T)
            got == version_at(manifest, T)
            top == Greatest(VersionStamps(manifest.versions), ts)
            v == manifest.versions[SetMax(top)]
        IN  Cardinality(top) > 1 =>
                /\ got.exc = "none"
                /\ got.value.data = v.data
                /\ \A a \in DOMAIN v.assets :
                      Cardinality(Greatest(EntryStamps(v.assets[a]), ts)) > 1
                      => got.value.assets[a] =
                            v.assets[a][SetMax(Greatest(EntryStamps(v.assets[a]),
                                                        ts))][2]

\* The assets of the latest version as version() reports them; no assets
\* when there is no version.
LatestAssets(m) ==
    IF m.versions = <<>> THEN <<>>
    ELSE [a \in DOMAIN LatestVersion(m).assets |->
             _latest(LatestVersion(m).assets[a])]

\* C6: asset linking carries forward.  After a successful new_version whose
\* fetcher finds asset a, version() resolves a to the URI that the previous
\* latest version resolved it to, and to "" when a was absent or unbound
\* there.
C6_CarryForward ==
    [][Succeeded("new_version") =>
          \A a \in Range(call'.fetch.keys) :
              /\ a \in DOMAIN LatestAssets(manifest')
              /\ LatestAssets(manifest')[a] =
                    IF a \in DOMAIN LatestAssets(manifest)
                    THEN LatestAssets(manifest)[a] ELSE ""]_vars

\* A new version that took over a binding and found an unbound asset too.
C6_Witness ==
    /\ call.op = "new_version"
    /\ result.exc = "none"
    /\ Len(manifest.versions) >= 2
    /\ \E a, b \in DOMAIN LatestAssets(manifest) :
          /\ LatestAssets(manifest)[a] # ""
          /\ LatestAssets(manifest)[b] = ""

\* C9: unknown asset rejection.  In every state of the Document, also
\* without versions, new_asset_version of an asset id that is no key of the
\* latest version raises ValueError and leaves the manifest as it was.
C9_UnknownAsset ==
    [][/\ call'.op = "new_asset_version"
       /\ call'.asset_id \notin DOMAIN LatestAssets(manifest)
       => result'.exc = "ValueError" /\ manifest' = manifest]_vars

\* One entry more in the timeline of asset a of the latest version, unless
\* a bore the URI u already, and u is the URI of a afterwards.
AppendedOnce(m, n, a, u) ==
    /\ LatestAssets(n)[a] = u
    /\ Len(LatestVersion(n).assets[a]) =
          Len(LatestVersion(m).assets[a])
          + IF LatestAssets(m)[a] = u THEN 0 ELSE 1
    /\ LatestAssets(m)[a] = u => n = m

\* C10: asset update is idempotent.  new_asset_version(a, u) with u the URI
\* that the latest version resolves a to raises VersionAlreadySet and
\* appends nothing; otherwise it appends one entry and makes u the URI of a,
\* so that repeating it appends nothing more; and put_asset answers
\* 204 No Content in both cases.
C10_AssetIdempotent ==
    [][/\ /\ call'.op = "new_asset_version"
          /\ call'.asset_id \in DOMAIN LatestAssets(manifest)
          => /\ AppendedOnce(manifest, manifest', call'.asset_id,
                             call'.data_url)
             /\ result'.exc =
                   IF LatestAssets(manifest)[call'.asset_id] = call'.data_url
                   THEN "VersionAlreadySet" ELSE "none"
       /\ \A a \in DOMAIN LatestAssets(manifest) :
             call'.op = "put_asset" /\ call'.asset_slug = slugify(a)
             => /\ AppendedOnce(manifest, manifest', a, call'.asset_url)
                /\ result' = Return(HTTPNoContent)]_vars

\* new_asset_version was refused for an asset that bears the URI already.
C10_Witness ==
    /\ call.op = "new_asset_version"
    /\ result.exc = "VersionAlreadySet"
    /\ call.asset_id \in DOMAIN LatestAssets(manifest)
    /\ LatestAssets(manifest)[call.asset_id] = call.data_url

-----------------------------------------------------------------------------
(* Document.version.                                                       *)

\* The place in versions that index names: from the start for index >= 0,
\* from the end for a negative index.
Position(m, index) ==
    IF index >= 0 THEN index + 1 ELSE Len(m.versions) + index + 1

\* C11: version(index) returns the version at that position counting from
\* the start for index >= 0 and from the end for a negative index, each
\* asset collapsed to the URI of the entry appended last to its timeline
\* (the empty string for an empty timeline); it raises ValueError exactly
\* when index is outside [-n, n-1] for a Document with n versions.
C11_VersionByIndex ==
    [][call'.op = "version" =>
          LET n == Len(manifest.versions)
              i == call'.index
              v == manifest.versions[Position(manifest, i)]
              got == result'.value
          IN  IF 0 - n <= i /\ i <= n - 1
              THEN /\ result'.exc = "none"
                   /\ got.data = v.data
                   /\ got.timestamp = v.timestamp
                   /\ DOMAIN got.assets = DOMAIN v.assets
                   /\ \A a \in DOMAIN v.assets :
                         got.assets[a] =
                            IF Len(v.assets[a]) = 0 THEN ""
                            ELSE v.assets[a][Len(v.assets[a])][2]
              ELSE result' = Raise("ValueError")]_vars

\* version() answered for a version that is not the latest, counted from
\* the end, one of whose assets is bound.
C11_Witness ==
    /\ call.op = "version"
    /\ call.index < -1
    /\ result.exc = "none"
    /\ \E a \in DOMAIN result.value.assets :
          Len(manifest.versions[Position(manifest, call.index)].assets[a]) >= 1

-----------------------------------------------------------------------------
(* Items of a DocumentsBundle or Journal.                                  *)

AddMethods == {"add_document", "add_issue"}

InsertMethods == {"insert_document", "insert_issue"}

RemoveMethods == {"remove_document", "remove_issue"}

\* C12: duplicate item rejection.  add_document/add_issue and
\* insert_document/insert_issue of an item that is in items already raise
\* AlreadyExists and leave the whole manifest, the items and the updated
\* stamp included, as it was.
C12_DuplicateItem ==
    [][/\ call'.op \in AddMethods \cup InsertMethods
       /\ call'.item \in Range(bundle._manifest.items)
       => result' = Raise("AlreadyExists") /\ bundle' = bundle]_vars

\* An item was added again, and one inserted again, beside another item.
C12_Witness ==
    /\ call.op \in AddMethods \cup InsertMethods
    /\ result = Raise("AlreadyExists")
    /\ call.item \in Range(bundle._manifest.items)
    /\ Len(bundle._manifest.items) >= 2

NoDuplicates(items) ==
    \A i, j \in 1..Len(items) : i # j => items[i] # items[j]

\* C13: in a bundle or journal created from an id, after any add, insert and
\* remove of items, successful or not, items holds no item twice.
C13_NoDuplicateItems == NoDuplicates(bundle._manifest.items)

\* Three items, the last call an insert that was refused.
C13_Witness ==
    /\ Len(bundle._manifest.items) = 3
    /\ call.op \in InsertMethods
    /\ result = Raise("AlreadyExists")

-----------------------------------------------------------------------------
(* The updated stamp and the typed setters.                                *)

\* C15: every successful mutation of the manifest of a bundle or journal
\* (set_metadata, add_item, insert_item, remove_item, set_component,
\* remove_component, through the methods of the aggregate) sets updated to
\* the reading of the clock at the time of the mutation.
C15_UpdatedRefreshed ==
    [][/\ call'.op # "idle"
       /\ result'.exc = "none"
       => bundle'._manifest.updated = utcnow(clock')]_vars

FourDigits(s) == Len(s) = 4 /\ \A i \in 1..Len(s) : IsDigit(s[i])

\* C16: the typed setters validate before they mutate.  Setting
\* publication_year to a value whose string form is not exactly four digits,
\* or subject_areas to a sequence with an element outside the vocabulary,
\* raises and leaves the manifest exactly as it was.
C16_SettersValidate ==
    [][\/ /\ call'.op = "publication_year"
          /\ ~FourDigits(str(call'.value))
       \/ /\ call'.op = "subject_areas"
          /\ call'.value.type = "tuple"
          /\ \E e \in Range(call'.value.elems) : e \notin Range(SUBJECT_AREAS)
       => result'.exc # "none" /\ bundle' = bundle]_vars

\* The elements of a sequence handed to the subject_areas setter.
Elements(value) ==
    IF value.type = "tuple" THEN Range(value.elems) ELSE Range(value.chars)

\* C17 as stated: the subject_areas setter accepts a sequence if and only if
\* every element is one of AGRICULTURAL SCIENCES, APPLIED SOCIAL SCIENCES,
\* BIOLOGICAL SCIENCES, ENGINEERING, EXACT AND EARTH SCIENCES, HEALTH
\* SCIENCES, HUMAN SCIENCES, LINGUISTIC LITERATURE AND ARTS.
C17_VocabularyAsStated ==
    [][/\ call'.op = "subject_areas"
       /\ call'.value.type \in {"tuple", "str"}
       => (result'.exc = "none" <=>
              Elements(call'.value) \subseteq
                 {"AGRICULTURAL SCIENCES", "APPLIED SOCIAL SCIENCES",
                  "BIOLOGICAL SCIENCES", "ENGINEERING",
                  "EXACT AND EARTH SCIENCES", "HEALTH SCIENCES",
                  "HUMAN SCIENCES", "LINGUISTIC LITERATURE AND ARTS"})]_vars

\* C17, amended: the subject_areas setter accepts a sequence if and only if
\* every element is one of the eight strings above, the eighth being
\* LINGUISTIC, LITERATURE AND ARTS (with the comma).
C17_Vocabulary ==
    [][/\ call'.op = "subject_areas"
       /\ call'.value.type \in {"tuple", "str"}
       => (result'.exc = "none" <=>
              Elements(call'.value) \subseteq
                 {"AGRICULTURAL SCIENCES", "APPLIED SOCIAL SCIENCES",
                  "BIOLOGICAL SCIENCES", "ENGINEERING",
                  "EXACT AND EARTH SCIENCES", "HEALTH SCIENCES",
                  "HUMAN SCIENCES", "LINGUISTIC, LITERATURE AND ARTS"})]_vars

\* The setter took all eight subject areas at once.
C17_Witness ==
    /\ call.op = "subject_areas"
    /\ result.exc = "none"
    /\ Cardinality(Elements(call.value)) = 8
    /\ bundle._manifest.metadata["subject_areas"] # <<>>

-----------------------------------------------------------------------------
(* The fetcher.                                                            *)

\* C18: fetch_data classifies the upstream failures.  A connection failure
\* or timeout raises RetryableError; an invalid or missing schema or an
\* invalid URL raises NonRetryableError; an HTTP error with status 400..499
\* raises NonRetryableError and with status 500..599 RetryableError; an HTTP
\* error with any other status goes on as the HTTPError it is; and only a
\* response that is no error returns content.
C18_FetchDataClassifies ==
    call.op = "fetch_data" =>
        LET up == call.upstream
            code == up.status_code
        IN  /\ up.raises \in {"ConnectionError", "ProxyError", "SSLError",
                              "Timeout", "ConnectTimeout", "ReadTimeout"}
               => result = Raise("RetryableError")
            /\ up.raises \in {"InvalidSchema", "MissingSchema", "InvalidURL",
                              "InvalidProxyURL"}
               => result = Raise("NonRetryableError")
            /\ up.raises = "none" /\ up.http_error
               => result = Raise(IF code \in 400..499 THEN "NonRetryableError"
                                 ELSE IF code \in 500..599
                                 THEN "RetryableError"
                                 ELSE "HTTPError")
            /\ result.exc = "none" <=> up.raises = "none" /\ ~up.http_error
            /\ result.exc = "none" => result.value = Content

\* An HTTP error at the lower bound of a status range was classified.
C18_Witness ==
    /\ call.op = "fetch_data"
    /\ call.upstream.http_error
    /\ call.upstream.status_code = 500
    /\ result = Raise("RetryableError")

\* C20: failure atomicity of new_version.  When the fetcher raises
\* RetryableError or NonRetryableError during new_version, the error goes on
\* to the caller and the manifest of the Document is what it was before the
\* call: no version appended, no asset entry added.
C20_FetchFailureAtomic ==
    [][/\ call'.op = "new_version"
       /\ call'.fetch.exc \in {"RetryableError", "NonRetryableError"}
       /\ \/ manifest.versions = <<>>
          \/ LatestVersion(manifest).data # call'.data_url
       => result' = Raise(call'.fetch.exc) /\ manifest' = manifest]_vars

\* The fetcher failed for a new data URL of a Document that has a version
\* with a bound asset.
C20_Witness ==
    /\ call.op = "new_version"
    /\ result.exc \in {"RetryableError", "NonRetryableError"}
    /\ manifest.versions # <<>>
    /\ LatestVersion(manifest).data # call.data_url
    /\ \E a \in DOMAIN LatestAssets(manifest) : LatestAssets(manifest)[a] # ""

-----------------------------------------------------------------------------
(* Who holds what.                                                         *)

\* C19: snapshot isolation by copy-on-write.  No method of the aggregate
\* changes in place an object that the caller holds, be it one that a method
\* returned (manifest, version(), version_at(), data()) or the manifest that
\* was passed to the constructor; and when the caller changes in place an
\* object that a method returned, the aggregate holds and reports what it
\* held before.
C19_SnapshotIsolation ==
    [][/\ call'.op \notin {"idle", "caller mutates"}
          => \A ref \in heap.held :
                heap'.cells[ref.addr] = heap.cells[ref.addr]
       /\ call'.op = "caller mutates" /\ call'.ref.origin = "returned"
          => /\ heap'.self = heap.self
             /\ heap'.cells[heap'.self] = heap.cells[heap.self]]_vars

\* The caller holds the manifest it passed to the constructor, which the
\* aggregate has replaced since, and an object a method returned, which the
\* caller has changed; and the aggregate has reported again.
C19_Witness ==
    /\ heap # NoValue
    /\ call.op \in {"manifest", "version", "data"}
    /\ result.exc = "none"
    /\ \E ref \in heap.held :
          ref.origin = "constructor" /\ ref.addr # heap.self
    /\ \E ref \in heap.held :
          /\ ref.origin = "returned"
          /\ heap.cells[ref.addr] = Scribbled(heap.cells[ref.addr])
          /\ ref.addr # result.value.ref

\* The href data() is to write for an asset id, given the mapping of the
\* version it resolved.
Binding(assets, asset_id) ==
    IF asset_id \in DOMAIN assets THEN assets[asset_id] ELSE ""

\* C21: Document.data resolves its version by version_at whenever a
\* timestamp is given (whatever version_index says) and by version_index
\* otherwise; it raises what the resolution or the fetcher raises; else the
\* content is the one fetched from the resolved version's data URI, every
\* node the fetcher found refers to the binding resolved for its asset id in
\* that version ("" when the id is absent or unbound); and the manifest is
\* left as it was.
C21_DataResolves ==
    [][call'.op = "data" =>
          LET args == call'
              target == IF args.version_at # None /\ args.version_at # <<>>
                        THEN version_at(manifest, args.version_at)
                        ELSE version(manifest, args.version_index)
          IN  /\ manifest' = manifest
              /\ target.exc # "none" => result' = Raise(target.exc)
              /\ target.exc = "none" /\ args.fetch.exc # "none"
                    => result' = Raise(args.fetch.exc)
              /\ target.exc = "none" /\ args.fetch.exc = "none" =>
                    /\ result'.exc = "none"
                    /\ result'.value.data = target.value.data
                    /\ Len(result'.value.hrefs) = Len(args.fetch.keys)
                    /\ \A i \in 1..Len(args.fetch.keys) :
                          result'.value.hrefs[i]
                              = Binding(target.value.assets, args.fetch.keys[i])
    ]_vars

\* data() was given a timestamp that resolves another version than its
\* version_index does, and wrote a bound href on one node and the empty
\* string on the node of an id that version does not have.
C21_Witness ==
    /\ call.op = "data"
    /\ result.exc = "none"
    /\ call.version_at \in Seconds
    /\ version(manifest, call.version_index).exc = "none"
    /\ version(manifest, call.version_index).value.data # result.value.data
    /\ \E i, j \in 1..Len(call.fetch.keys) :
          /\ result.value.hrefs[i] \in AssetUrls
          /\ result.value.hrefs[j] = ""
          /\ call.fetch.keys[j]
                \notin DOMAIN version_at(manifest, call.version_at).value.assets

-----------------------------------------------------------------------------
(* Metadata timelines and components.                                      *)

\* The metadata fields the aggregates of the model set, and the method that
\* sets each.
MetadataFields == {"status", "publication_year", "subject_areas"}

\* C22: metadata fields keep a full audit trail.  A successful set of a
\* field (Journal.status here) appends one entry, stamped now and bearing
\* the value set, to the end of the field's timeline; no other step, a
\* rejected set included, adds, removes or alters an entry of it; the getter
\* returns the value of the last entry, the default "" without one; and
\* status_history returns the whole timeline as get_metadata_all has it.
C22_AuditTrail ==
    [][/\ \A name \in MetadataFields :
             LET old == get_metadata_all(bundle._manifest, name)
                 all == get_metadata_all(bundle'._manifest, name)
             IN  IF call'.op = name /\ result'.exc = "none"
                 THEN /\ Len(all) = Len(old) + 1
                      /\ SubSeq(all, 1, Len(old)) = old
                      /\ all[Len(all)][1] = utcnow(clock')
                 ELSE all = old
       /\ Succeeded("status") =>
             LET all == get_metadata_all(bundle'._manifest, "status")
             IN  all[Len(all)][2] = call'.value.items
       /\ call'.op = "status_getter" =>
             LET history == get_metadata_all(bundle._manifest, "status")
             IN  result' = Return(IF history = <<>> THEN ""
                                  ELSE history[Len(history)][2])
       /\ call'.op = "status_history" =>
             result' = Return(get_metadata_all(bundle._manifest, "status"))
    ]_vars

\* The status was read after two sets of different values.
C22_Witness ==
    /\ call.op = "status_getter"
    /\ Len(status_history(bundle._manifest)) >= 2
    /\ status_history(bundle._manifest)[1][2] # result.value

\* C23: components are last-write-wins with no history.  After a set of
\* Journal.ahead_of_print_bundle the manifest is what it would be had no
\* value been set before (the new value under "aop", updated now, nothing
\* else touched); the getter returns the value set, the empty string when
\* none is; a successful remove_ahead_of_print_bundle leaves no component;
\* and remove_ahead_of_print_bundle with none set raises DoesNotExist and
\* leaves the manifest as it was.
C23_Components ==
    [][/\ Succeeded("ahead_of_print_bundle") =>
             bundle'._manifest =
                 [bundle._manifest EXCEPT
                     !.components = [n \in {"aop"} |-> call'.value],
                     !.updated = utcnow(clock')]
       /\ call'.op = "ahead_of_print_bundle_getter" =>
             result' = Return(IF "aop" \in DOMAIN bundle._manifest.components
                              THEN bundle._manifest.components["aop"]
                              ELSE "")
       /\ call'.op = "remove_ahead_of_print_bundle" =>
             IF "aop" \in DOMAIN bundle._manifest.components
             THEN /\ result'.exc = "none"
                  /\ DOMAIN bundle'._manifest.components = {}
                  /\ ahead_of_print_bundle(bundle'._manifest) = ""
             ELSE /\ result' = Raise("DoesNotExist")
                  /\ bundle' = bundle
    ]_vars

\* The getter answered aop-2 on a journal that was changed twice, both
\* times at clock reading 0 and neither time in its items or metadata: it
\* was set to aop-1 and then to aop-2.
C23_Witness ==
    /\ call.op = "ahead_of_print_bundle_getter"
    /\ result = Return("aop-2")
    /\ commands = 2
    /\ clock = 0
    /\ bundle._manifest.items = <<>>
    /\ bundle._manifest.metadata = <<>>
    /\ bundle._manifest.components = [n \in {"aop"} |-> "aop-2"]

-----------------------------------------------------------------------------
(* PUT /documents/{document_id}.                                           *)

-----------------------------------------------------------------------------
(* The frame of the commands.                                              *)

\* C25: a successful new_asset_version(a, u) changes only the latest
\* version.  Every earlier version is identical, the number of versions, the
\* data URI and the timestamp of the latest version are what they were, the
\* timelines of the other assets of the latest version are what they were,
\* and the timeline of a has exactly one entry more, (now, u), at its end.
C25_AssetVersionFrame ==
    [][Succeeded("new_asset_version") =>
          LET n == Len(manifest.versions)
              old == LatestVersion(manifest)
              latest == LatestVersion(manifest')
              a == call'.asset_id
          IN  /\ Len(manifest'.versions) = n
              /\ \A i \in 1..(n - 1) :
                    manifest'.versions[i] = manifest.versions[i]
              /\ latest.data = old.data
              /\ latest.timestamp = old.timestamp
              /\ DOMAIN latest.assets = DOMAIN old.assets
              /\ \A b \in DOMAIN old.assets \ {a} :
                    latest.assets[b] = old.assets[b]
              /\ latest.assets[a] =
                    Append(old.assets[a], <<utcnow(clock'), call'.data_url>>)
    ]_vars

\* An asset was bound in the second version of a Document whose first
\* version has that asset too, and another asset beside.
C25_Witness ==
    /\ call.op = "new_asset_version"
    /\ result.exc = "none"
    /\ Len(manifest.versions) = 2
    /\ call.asset_id \in DOMAIN manifest.versions[1].assets
    /\ DOMAIN LatestVersion(manifest).assets = AssetIds

\* C26: the asset keys of a version are fixed at its creation.  The version
\* appended by a successful new_version has as keys exactly the asset ids
\* the fetcher found for that data URL (the ids of the previous version that
\* were not found again are not carried over), and no operation adds a key
\* to a version that exists or removes one from it.
C26_AssetKeysFixed ==
    [][/\ Succeeded("new_version") =>
             DOMAIN LatestVersion(manifest').assets = Range(call'.fetch.keys)
       /\ \A i \in 1..Len(manifest.versions) :
             /\ i <= Len(manifest'.versions)
             /\ DOMAIN manifest'.versions[i].assets
                   = DOMAIN manifest.versions[i].assets
    ]_vars

\* new_version appended a version without an asset that the version before
\* has and has bound.
C26_Witness ==
    /\ call.op = "new_version"
    /\ result.exc = "none"
    /\ Len(manifest.versions) >= 2
    /\ \E a \in DOMAIN manifest.versions[Len(manifest.versions) - 1].assets :
          /\ a \notin DOMAIN LatestVersion(manifest).assets
          /\ manifest.versions[Len(manifest.versions) - 1].assets[a] # <<>>

\* C29: the guard of new_version compares with the latest version only.  On
\* a Document whose latest version has another data URI than A while an
\* earlier version has A, new_version(A) with a fetcher that succeeds does
\* not raise VersionAlreadySet: it appends a version with data URI A and
\* leaves the versions there were as they were.
C29_GuardLatestOnly ==
    [][/\ call'.op = "new_version"
       /\ call'.fetch.exc = "none"
       /\ Len(manifest.versions) >= 2
       /\ LatestVersion(manifest).data # call'.data_url
       /\ \E i \in 1..Len(manifest.versions) :
             manifest.versions[i].data = call'.data_url
       => /\ result'.exc = "none"
          /\ Len(manifest'.versions) = Len(manifest.versions) + 1
          /\ LatestVersion(manifest').data = call'.data_url
          /\ SubSeq(manifest'.versions, 1, Len(manifest.versions))
                = manifest.versions
    ]_vars

\* Versions with data URIs A, B and A again, the third just appended.
C29_Witness ==
    /\ call.op = "new_version"
    /\ result.exc = "none"
    /\ Len(manifest.versions) = 3
    /\ manifest.versions[1].data = manifest.versions[3].data
    /\ manifest.versions[2].data # manifest.versions[3].data

-----------------------------------------------------------------------------
(* Time travel on the Documents the commands make.                         *)

\* Every timestamp stored in m: of its versions and of their asset entries.
StoredStamps(m) ==
    UNION {{m.versions[i].timestamp}
           \cup UNION {Range(EntryStamps(m.versions[i].assets[a])) :
                          a \in DOMAIN m.versions[i].assets} :
             i \in 1..Len(m.versions)}

\* C27: a binding carried forward by linking is visible to version_at from
\* the instant the new version was created.  After a successful new_version
\* that made version V2 with asset a carried forward bound to u1, for every
\* well-formed T at or after the timestamp of V2 for which version_at(T)
\* resolves V2, version_at(T) reports a as u1.
C27_CarriedBindingVisible ==
    [][Succeeded("new_version") =>
          LET V2 == LatestVersion(manifest')
          IN  \A a \in Range(call'.fetch.keys) \cap DOMAIN LatestAssets(manifest) :
                  \A T \in WellFormed :
                      LET at == version_at(manifest', T)
                      IN  /\ LatestAssets(manifest)[a] # ""
                          /\ StrLeq(V2.timestamp, Widened(T))
                          /\ at.exc = "none"
                          /\ at.value.data = V2.data
                          /\ at.value.timestamp = V2.timestamp
                          => at.value.assets[a] = LatestAssets(manifest)[a]
    ]_vars

\* C28: index and time agree on the present.  In every Document that
\* new_version and new_asset_version make under a clock that never goes
\* back, for every well-formed T at or after every timestamp stored in the
\* manifest, version_at(T) returns the data URI and the asset bindings that
\* version(-1) returns.
C28_PresentAgrees ==
    manifest.versions # <<>> =>
        \A T \in WellFormed :
            (\A stamp \in StoredStamps(manifest) : StrLeq(stamp, Widened(T)))
            => /\ version_at(manifest, T).exc = "none"
               /\ version_at(manifest, T).value.data
                     = version(manifest, -1).value.data
               /\ version_at(manifest, T).value.assets
                     = version(manifest, -1).value.assets

\* C30: timestamp ordering.  Under a clock that never goes back, in every
\* manifest that new_version and new_asset_version make from an empty
\* Document, the timestamps of the versions never decrease along the list
\* of versions, the timestamps of the entries never decrease along any
\* asset timeline, and the timestamp of every asset entry is at or after
\* the timestamp of the version that holds it.
C30_StampsOrdered ==
    /\ NonDecreasing(VersionStamps(manifest.versions))
    /\ \A i \in 1..Len(manifest.versions) :
          \A a \in DOMAIN manifest.versions[i].assets :
              LET stamps == EntryStamps(manifest.versions[i].assets[a])
              IN  /\ NonDecreasing(stamps)
                  /\ \A k \in 1..Len(stamps) :
                        StrLeq(manifest.versions[i].timestamp, stamps[k])

====
